---- MODULE Spec2Model ----
(***************************************************************************)
(* Model of the Tsukamoto fuzzy ventilation controller                     *)
(* (src/src/ventilation_system.py, src/src/tsukamoto_model.py).            *)
(*                                                                         *)
(* Number system.  The program computes in floating point; the model       *)
(* computes the same formulas over the rationals and keeps                 *)
(*   - a membership degree as an integer count of 1e-5 (ONE is 1.0),       *)
(*     truncated towards minus infinity,                                   *)
(*   - a temperature as an integer count of tenths (the term parameters    *)
(*     min + 0.k*span are exact in tenths),                                *)
(*   - a point of a linspace universe of n samples as an integer count of  *)
(*     1/(n-1) of a unit,                                                  *)
(*   - a fan value as a count of half sampling steps (101/1998) above 0,   *)
(*     so that both a sample (2*i) and the mean of the universe (n-1) are  *)
(*     integers, and a result of evaluate as the exact fraction            *)
(*     numerator/denominator of such values.                               *)
(* The additive 1e-6 of trapmf and the tolerance 1e-3 of defuzz_single are *)
(* represented exactly.                                                    *)
(***************************************************************************)
EXTENDS Integers, Sequences, FiniteSets, TLC

ONE == 100000          \* the membership degree 1 in units of 1e-5
EpsInv == 1000000      \* 1 / 1e-6, the constant added to both denominators
Tol == 100             \* the tolerance 1e-3 in units of 1e-5
NSamples == 1000       \* samples of every linspace universe

Max(a, b) == IF a >= b THEN a ELSE b
Min(a, b) == IF a <= b THEN a ELSE b
Abs(a) == IF a >= 0 THEN a ELSE -a

Terms == <<"very_low", "low", "medium", "high", "very_high">>
TermSet == {Terms[i] : i \in 1..Len(Terms)}

(***************************************************************************)
(* n / (d + 1e-6) for a numerator n and a difference d given in units of   *)
(* 1/u, that is floor(ONE * n / (d + u*1e-6)), saturated to [-1, ONE]:     *)
(* trapmf takes min(., 1, .) and max(0, .) of it and sees nothing else.    *)
(* With ONE*n = q*d + m the quotient is q exactly when q*u*1e-6 <= m.      *)
(***************************************************************************)
Quot(n, d, u) ==
    LET p == (0 - ONE) * (d - n)
        q == ONE + (p \div d)
        m == p % d
    IN  IF m < 100 /\ m * EpsInv < q * u THEN q - 1 ELSE q

\* n / (d - u*1e-6) for 0 < n < d: the quotient of a negative denominator
QuotNeg(n, d, u) ==
    LET q == (ONE * n) \div d
        m == (ONE * n) % d
    IN  IF d - m < 100 /\ (d - m) * EpsInv <= (q + 1) * u THEN q + 1 ELSE q

Ratio(n, d, u) ==
    IF d >= 0
    THEN IF n <= 0 THEN (IF n = 0 THEN 0 ELSE -1)
         ELSE IF n > d THEN ONE
         ELSE Quot(n, d, u)
    ELSE IF n >= 0 THEN (IF n = 0 THEN 0 ELSE -1)
         ELSE IF (0 - n) >= (0 - d) THEN ONE
         ELSE QuotNeg(0 - n, 0 - d, u)

\* a trapmf without the outer np.maximum(0, .)
trapmf_unfloored(x, a, b, c, d, u) ==
    Min(Min(Ratio(x - a, b - a, u), ONE), Ratio(d - x, d - c, u))

\* np.maximum(0, np.minimum(np.minimum((x-a)/(b-a+1e-6), 1), (d-x)/(d-c+1e-6)))
trapmf(x, a, b, c, d, u) ==
    Max(0, Min(Min(Ratio(x - a, b - a, u), ONE), Ratio(d - x, d - c, u)))


\* The attributes of a VentilationSystem, the position of run (pc) with its
\* locals temp and hum, and the last direct call of a method with what it
\* returned (call).
VARIABLES temp_range, x1, x2, res, temperature, humidity, fan_speed,
          temp_mfs, hum_mfs, fan_mfs, rules, pc, temp, hum, call

vars == <<temp_range, x1, x2, res, temperature, humidity, fan_speed,
          temp_mfs, hum_mfs, fan_mfs, rules, pc, temp, hum, call>>

attrs == <<temp_range, x1, x2, res, temperature, humidity, fan_speed,
           temp_mfs, hum_mfs, fan_mfs, rules>>

\* np.linspace(lo, hi, 1000), kept as its arguments; sample i is
\* lo + i*(hi-lo)/(n-1)
linspace(lo, hi, n) == [lo |-> lo, hi |-> hi, n |-> n]

\* the default arguments of __init__
DefaultRange == <<0, 101, 1>>
hum_range == <<0, 101, 1>>
fan_range == <<0, 101, 1>>

Pow4(v) == v * v * v * v

(***************************************************************************)
(* set_default_mfs: the parameters (a, b, c, d) of the five temperature    *)
(* terms, in tenths, from temp_range = (temp_min, temp_max, step).         *)
(***************************************************************************)
DefaultTempMfs(tr) ==
    LET temp_min == tr[1]
        temp_max == tr[2]
        temp_span == temp_max - temp_min
        at(k) == 10 * temp_min + k * temp_span     \* temp_min + 0.k*temp_span
    IN  [t \in TermSet |->
          CASE t = "very_low" ->
                 << 10 * (IF temp_max > 10
                          THEN temp_min - Pow4(temp_max)
                          ELSE temp_min - Pow4(Abs(temp_max) + 10)),
                    10 * temp_min, at(2), at(3) >>
            [] t = "low"       -> << at(2), at(3), at(4), at(5) >>
            [] t = "medium"    -> << at(4), at(5), at(6), at(7) >>
            [] t = "high"      -> << at(6), at(7), at(8), at(9) >>
            [] t = "very_high" -> << at(8), at(9), 10 * temp_max, 10 * (temp_max * 10) >>]

\* set_default_mfs: the humidity terms, fixed
DefaultHumMfs ==
    [t \in TermSet |->
      CASE t = "very_low"  -> << -100, 0, 20, 30 >>
        [] t = "low"       -> << 20, 30, 40, 50 >>
        [] t = "medium"    -> << 40, 50, 60, 70 >>
        [] t = "high"      -> << 60, 70, 80, 90 >>
        [] t = "very_high" -> << 80, 90, 100, 1000 >>]

\* set_default_mfs: the parameters each fan term hands to defuzz_single
DefaultFanMfs ==
    [t \in TermSet |->
      CASE t = "very_low"  -> << -100, 0, 20, 30 >>
        [] t = "low"       -> << 20, 30, 40, 50 >>
        [] t = "medium"    -> << 40, 50, 60, 70 >>
        [] t = "high"      -> << 60, 70, 80, 90 >>
        [] t = "very_high" -> << 80, 90, 100, 1000 >>]

\* the rule table of set_rules: (temp_term, hum_term, fan_term), in order
RuleTable ==
    << <<"very_low", "very_low", "very_low">>,
       <<"very_low", "low", "very_low">>,
       <<"very_low", "medium", "low">>,
       <<"very_low", "high", "high">>,
       <<"very_low", "very_high", "high">>,
       <<"low", "very_low", "very_low">>,
       <<"low", "low", "low">>,
       <<"low", "medium", "low">>,
       <<"low", "high", "medium">>,
       <<"low", "very_high", "high">>,
       <<"medium", "very_low", "low">>,
       <<"medium", "low", "low">>,
       <<"medium", "medium", "medium">>,
       <<"medium", "high", "high">>,
       <<"medium", "very_high", "high">>,
       <<"high", "very_low", "high">>,
       <<"high", "low", "high">>,
       <<"high", "medium", "high">>,
       <<"high", "high", "very_high">>,
       <<"high", "very_high", "very_high">>,
       <<"very_high", "very_low", "very_high">>,
       <<"very_high", "low", "very_high">>,
       <<"very_high", "medium", "very_high">>,
       <<"very_high", "high", "very_high">>,
       <<"very_high", "very_high", "very_high">> >>

\* a set_rules that loses the last rule of the table
set_rules_dropped == SubSeq(RuleTable, 1, Len(RuleTable) - 1)

\* a set_rules whose rule (high, medium) asks for a low fan speed
set_rules_swapped == [RuleTable EXCEPT ![18] = <<"high", "medium", "low">>]

\* set_rules: self.rules = [...]
set_rules == RuleTable

(***************************************************************************)
(* defuzz_single.  mf_values is trapmf over every sample of the universe;  *)
(* the tables of the universe and the parameters the constructor sets are  *)
(* computed once (MfTable) and looked up, any other is computed in place.  *)
(***************************************************************************)
SampledMf(universe, params) ==
    LET u == universe.n - 1
    IN  [i \in 0..u |->
           trapmf(universe.lo * u + i * (universe.hi - universe.lo),
                  params[1] * u, params[2] * u, params[3] * u, params[4] * u, u)]

MfTable ==
    [p \in {DefaultFanMfs[t] : t \in TermSet} |->
        SampledMf(linspace(fan_range[1], fan_range[2], NSamples), p)]

mf_values(universe, params) ==
    IF universe = linspace(fan_range[1], fan_range[2], NSamples)
       /\ params \in DOMAIN MfTable
    THEN MfTable[params]
    ELSE SampledMf(universe, params)

\* idx[0] of np.where(mf >= thr)[0]: the lowest index that reaches thr,
\* -1 if len(idx) == 0
FirstIdx(mf, thr, last) ==
    IF \E i \in 0..last : mf[i] >= thr
    THEN CHOOSE i \in 0..last :
            mf[i] >= thr /\ \A j \in 0..(i - 1) : mf[j] < thr
    ELSE -1

\* idx[-1] of np.where(mf >= thr)[0]: the highest index that reaches thr,
\* -1 if len(idx) == 0
LastIdx(mf, thr, last) ==
    IF \E i \in 0..last : mf[i] >= thr
    THEN CHOOSE i \in 0..last :
            mf[i] >= thr /\ \A j \in (i + 1)..last : mf[j] < thr
    ELSE -1

\* z_values[i] and np.mean(z_values), in half sampling steps above lo
ZValue(i) == 2 * i
ZMean(universe) == universe.n - 1

\* a defuzz_single that compares without the tolerance
defuzz_single_exact(mu_target, params, ascending) ==
    LET z_values == fan_speed
        mf == mf_values(z_values, params)
        idx == FirstIdx(mf, mu_target, z_values.n - 1)
    IN  IF idx = -1 THEN ZMean(z_values) ELSE ZValue(idx)

defuzz_single(mu_target, params, ascending) ==
    LET z_values == fan_speed
        mf == mf_values(z_values, params)
        idx == IF ascending
               THEN FirstIdx(mf, mu_target - Tol, z_values.n - 1)
               ELSE LastIdx(mf, mu_target - Tol, z_values.n - 1)
    IN  IF idx = -1 THEN ZMean(z_values) ELSE ZValue(idx)

(***************************************************************************)
(* evaluate: the loop over the rules, then numerator / denominator or 0.   *)
(* A result is the fraction [num, den] of fan values (half steps).         *)
(***************************************************************************)
mu_temp(temp_term, temp_val) ==
    LET p == temp_mfs[temp_term]
    IN  trapmf(10 * temp_val, p[1], p[2], p[3], p[4], 10)

mu_hum(hum_term, hum_val) ==
    LET p == hum_mfs[hum_term]
    IN  trapmf(hum_val, p[1], p[2], p[3], p[4], 1)

\* alpha = min(mu_temp, mu_hum) of one rule
Alpha(rule, temp_val, hum_val) ==
    Min(mu_temp(rule[1], temp_val), mu_hum(rule[2], hum_val))

\* z = self.fan_mfs[fan_term](alpha)
FanZ(rule, alpha) == defuzz_single(alpha, fan_mfs[rule[3]], TRUE)

\* the loop of evaluate from rule k on; alpha and z of every rule are kept
\* beside the two sums
RECURSIVE RuleLoop(_, _, _, _)
RuleLoop(k, acc, temp_val, hum_val) ==
    IF k > Len(rules)
    THEN acc
    ELSE LET alpha == Alpha(rules[k], temp_val, hum_val)
             z == FanZ(rules[k], alpha)
         IN  RuleLoop(k + 1,
                      [numerator |-> acc.numerator + alpha * z,
                       denominator |-> acc.denominator + alpha,
                       alpha |-> Append(acc.alpha, alpha),
                       z |-> Append(acc.z, z)],
                      temp_val, hum_val)

Fraction(n, d) == [num |-> n, den |-> d]
Zero == Fraction(0, 1)

\* an evaluate that answers the mean of the universe when no rule fires
QuotientMean(acc) ==
    IF acc.denominator # 0
    THEN Fraction(acc.numerator, acc.denominator)
    ELSE Fraction(ZMean(fan_speed), 1)

\* numerator / denominator if denominator != 0 else 0
Quotient(acc) ==
    IF acc.denominator # 0
    THEN Fraction(acc.numerator, acc.denominator)
    ELSE Zero

Accumulate(temp_val, hum_val) ==
    RuleLoop(1, [numerator |-> 0, denominator |-> 0, alpha |-> << >>, z |-> << >>],
             temp_val, hum_val)

evaluate(temp_val, hum_val) == Quotient(Accumulate(temp_val, hum_val))

(***************************************************************************)
(* Inputs.  A range is the pair of integers typed at the prompt of         *)
(* input_temp_range: every pair of a small grid, and a few wide ones.      *)
(***************************************************************************)
MaxAbs == 3            \* the small grid of range bounds is -MaxAbs..MaxAbs
MaxOut == 2            \* a direct call passes values this far out of range

WideRanges == { <<0, 100>>, <<-30, 30>>, <<-100, -2>>, <<-30, -10>>,
                <<-20, 0>>, <<0, 9>>, <<0, 10>> }

GridRanges ==
    {<<a, b>> : a \in (0 - MaxAbs)..MaxAbs, b \in (0 - MaxAbs)..MaxAbs}

RangeInputs == GridRanges \cup WideRanges

\* humidities typed at the prompt of input_hum
HumInputs == {0, 25, 55, 80, 100}

\* arguments of a direct call of evaluate: in range, just out of range, and
\* beyond the support of every term
TempArgs ==
    ((x1 - MaxOut)..(x2 + MaxOut))
      \cup {(temp_mfs["very_low"][1] \div 10) - 1,
            10 * temp_range[2], 10 * temp_range[2] + 1}

HumArgs == {-101, 0 - MaxOut, 0, 55, 100, 100 + MaxOut, 1001}

\* arguments of a direct call of a fan term: a grid of degrees, the degrees
\* around 1 and around 1 + 1e-3, and degrees above both
MuArgs ==
    {m \in 0..ONE : m % 5000 = 0}
      \cup {1, Tol - 1, Tol, Tol + 1, ONE - Tol, ONE - 1}
      \cup {ONE + k : k \in 1..MaxOut}
      \cup {ONE + Tol - 1, ONE + Tol}
      \cup {ONE + Tol + k : k \in 1..MaxOut}

NoCall == [op |-> "none"]

\* __init__ with its default arguments
Init ==
    /\ temp_range = DefaultRange
    /\ x1 = DefaultRange[1]
    /\ x2 = DefaultRange[2] - 1
    /\ res = Zero
    /\ temperature = linspace(DefaultRange[1], DefaultRange[2], NSamples)
    /\ humidity = linspace(hum_range[1], hum_range[2], NSamples)
    /\ fan_speed = linspace(fan_range[1], fan_range[2], NSamples)
    /\ temp_mfs = DefaultTempMfs(DefaultRange)
    /\ hum_mfs = DefaultHumMfs
    /\ fan_mfs = DefaultFanMfs
    /\ rules = set_rules
    /\ pc = "idle"
    /\ temp = 0
    /\ hum = 0
    /\ call = NoCall

\* an input_temp_range that rebuilds the humidity universe, not the
\* temperature universe
SetRangeHumidity(a, b) ==
    /\ x1' = a
    /\ x2' = b
    /\ temp_range' = <<a, b + 1, 1>>
    /\ humidity' = linspace(a, b + 1, NSamples)
    /\ temp_mfs' = DefaultTempMfs(<<a, b + 1, 1>>)
    /\ hum_mfs' = DefaultHumMfs
    /\ fan_mfs' = DefaultFanMfs
    /\ UNCHANGED <<res, temperature, fan_speed, rules>>

\* the body of input_temp_range for the two integers a and b
SetRange(a, b) ==
    /\ x1' = a
    /\ x2' = b
    /\ temp_range' = <<a, b + 1, 1>>
    /\ temperature' = linspace(a, b + 1, NSamples)
    /\ temp_mfs' = DefaultTempMfs(<<a, b + 1, 1>>)
    /\ hum_mfs' = DefaultHumMfs
    /\ fan_mfs' = DefaultFanMfs
    /\ UNCHANGED <<res, humidity, fan_speed, rules>>

\* input_temp_range called on the object outside run
Reconfigure(a, b) ==
    /\ pc = "idle"
    /\ call = NoCall
    /\ SetRange(a, b)
    /\ UNCHANGED <<pc, temp, hum, call>>

\* run: hello
Hello ==
    /\ pc = "idle"
    /\ call = NoCall
    /\ pc' = "input_temp_range"
    /\ UNCHANGED <<attrs, temp, hum, call>>

\* run: input_temp_range
InputTempRange(a, b) ==
    /\ pc = "input_temp_range"
    /\ SetRange(a, b)
    /\ pc' = "input_values"
    /\ UNCHANGED <<temp, hum, call>>

\* run: input_values; input_temp and input_hum are asked again until the
\* value is in range
InputValues(t, h) ==
    /\ pc = "input_values"
    /\ x1 <= t /\ t <= x2
    /\ 0 <= h /\ h <= 100
    /\ temp' = t
    /\ hum' = h
    /\ pc' = "evaluate"
    /\ UNCHANGED <<attrs, call>>

\* run: self.res = self.evaluate(temp, hum)
RunEvaluate ==
    /\ pc = "evaluate"
    /\ res' = evaluate(temp, hum)
    /\ pc' = "is_very_high"
    /\ UNCHANGED <<temp_range, x1, x2, temperature, humidity, fan_speed,
                   temp_mfs, hum_mfs, fan_mfs, rules, temp, hum, call>>

\* int(): truncation towards zero of v tenths
IntOfTenths(v) == IF v >= 0 THEN v \div 10 ELSE 0 - ((0 - v) \div 10)

\* int(temp_range[0] + 0.9 * (temp_range[1] - temp_range[0]))
Threshold(tr) == IntOfTenths(10 * tr[1] + 9 * (tr[2] - tr[1]))

\* the value 100 as a fraction of half steps of 101/1998
Hundred == Fraction(199800, 101)

\* run: is_very_high
IsVeryHigh ==
    /\ pc = "is_very_high"
    /\ res' = IF temp >= Threshold(temp_range) THEN Hundred ELSE res
    /\ pc' = "show_res"
    /\ UNCHANGED <<temp_range, x1, x2, temperature, humidity, fan_speed,
                   temp_mfs, hum_mfs, fan_mfs, rules, temp, hum, call>>

\* run: show_res and visualize only read
ShowRes ==
    /\ pc = "show_res"
    /\ pc' = "done"
    /\ UNCHANGED <<attrs, temp, hum, call>>

\* evaluate called on the object outside run
CallEvaluate(t, h) ==
    /\ pc = "idle"
    /\ call = NoCall
    /\ \E acc \in {Accumulate(t, h)} :
           call' = [op |-> "evaluate", temp_val |-> t, hum_val |-> h,
                    alpha |-> acc.alpha, z |-> acc.z,
                    denominator |-> acc.denominator, ret |-> Quotient(acc)]
    /\ UNCHANGED <<attrs, pc, temp, hum>>

\* self.fan_mfs[term](mu) called on the object outside run
CallFanTerm(term, mu) ==
    /\ pc = "idle"
    /\ call = NoCall
    /\ call' = [op |-> "fan_mfs", term |-> term, mu |-> mu,
                ret |-> defuzz_single(mu, fan_mfs[term], TRUE)]
    /\ UNCHANGED <<attrs, pc, temp, hum>>

Next ==
    \/ \E r \in RangeInputs : Reconfigure(r[1], r[2])
    \/ Hello
    \/ \E r \in RangeInputs : InputTempRange(r[1], r[2])
    \/ \E t \in x1..x2, h \in HumInputs : InputValues(t, h)
    \/ RunEvaluate
    \/ IsVeryHigh
    \/ ShowRes

\* the program: an object is constructed, reconfigured at will, and run
Spec == Init /\ [][Next]_vars

NextEval ==
    \/ \E t \in TempArgs, h \in HumArgs : CallEvaluate(t, h)
    \/ \E r \in GridRanges \cup {<<-100, -2>>} : Reconfigure(r[1], r[2])

\* an object is constructed, reconfigured at will, and evaluate is called
SpecEval == Init /\ [][NextEval]_vars

NextFan == \E term \in TermSet, mu \in MuArgs : CallFanTerm(term, mu)

\* an object is constructed and a fan term is called
SpecFan == Init /\ [][NextFan]_vars

(***************************************************************************)
(* Comparison of results.  a/b <= c/d for a, c >= 0 and b, d > 0, by the   *)
(* integer parts and then the reciprocals of the fractional parts.         *)
(***************************************************************************)
RECURSIVE LeqRec(_, _, _, _)
LeqRec(a, b, c, d) ==
    IF a \div b # c \div d THEN a \div b < c \div d
    ELSE IF a % b = 0 THEN TRUE
    ELSE IF c % d = 0 THEN FALSE
    ELSE LeqRec(d, c % d, b, a % b)

FracLeq(f, g) == LeqRec(f.num, f.den, g.num, g.den)

\* a result between 0 and 100
InPercent(f) == f.den > 0 /\ f.num >= 0 /\ FracLeq(f, Hundred)

\* a fan value (half steps of 101/1998) between 0 and 100
ZInPercent(z) == z >= 0 /\ 101 * z <= 199800

Rules == 1..Len(rules)

(***************************************************************************)
(* C1.  Whatever range is configured and whatever values are passed, in    *)
(* range or not, every firing strength of evaluate is in [0,1], every      *)
(* crisp value of the inverse lookup is in [0,100], and so is the result.  *)
(***************************************************************************)
C1_EvaluateInRange ==
    call.op = "evaluate" =>
        /\ \A k \in 1..Len(call.alpha) :
              /\ 0 <= call.alpha[k] /\ call.alpha[k] <= ONE
              /\ ZInPercent(call.z[k])
        /\ InPercent(call.ret)

\* evaluate was called on a reconfigured object with a temperature above
\* the range, and rules fired
C1_Witness ==
    /\ call.op = "evaluate"
    /\ temp_range # DefaultRange
    /\ x1 <= x2 /\ x2 >= 0
    /\ call.temp_val > x2
    /\ call.denominator > 0
    /\ call.ret.num > 0

(***************************************************************************)
(* C2 as claimed.  evaluate returns 0 exactly when all 25 firing           *)
(* strengths are 0.                                                        *)
(***************************************************************************)
C2_ZeroIffNoRuleFires ==
    call.op = "evaluate" =>
        ((call.ret.num = 0) <=> (\A k \in 1..Len(call.alpha) : call.alpha[k] = 0))

(***************************************************************************)
(* C2 as amended.  evaluate returns 0 when all firing strengths are 0, and *)
(* a non-zero value exactly when some rule has a non-zero firing strength  *)
(* and a non-zero crisp value z; a rule whose consequent is very_low, or   *)
(* whose firing strength is at most 1e-3, has z = 0.                       *)
(***************************************************************************)
C2_ZeroUnlessWeightedZ ==
    call.op = "evaluate" =>
        /\ (\A k \in 1..Len(call.alpha) : call.alpha[k] = 0)
              => call.ret = Zero
        /\ (call.ret.num # 0) <=>
              (\E k \in 1..Len(call.alpha) : call.alpha[k] # 0 /\ call.z[k] # 0)
        /\ \A k \in 1..Len(call.alpha) :
              (rules[k][3] = "very_low" \/ call.alpha[k] <= Tol) => call.z[k] = 0

\* evaluate was called with values for which no rule fires
C2_Witness ==
    /\ call.op = "evaluate"
    /\ \A k \in 1..Len(call.alpha) : call.alpha[k] = 0
    /\ call.ret.num = 0

(***************************************************************************)
(* C3 as claimed.  With the default range and a humidity whose medium      *)
(* membership is 1, the result does not decrease with the temperature:     *)
(* evaluate(t1, hum) <= evaluate(t2, hum) for all t1 <= t2 of the range.   *)
(***************************************************************************)
MediumHumidity(h) == mu_hum("medium", h) = ONE

C3_MonotoneInTemperature ==
    (/\ call.op = "evaluate"
     /\ temp_range = DefaultRange
     /\ MediumHumidity(call.hum_val)
     /\ x1 <= call.temp_val /\ call.temp_val <= x2)
    => \A t1 \in x1..call.temp_val :
          FracLeq(evaluate(t1, call.hum_val), call.ret)

(***************************************************************************)
(* C3 as amended.  The same for the integer temperatures t1 <= t2 of the   *)
(* range that both lie outside the open overlap                            *)
(* (min + 0.2*span, min + 0.3*span) of the terms very_low and low.         *)
(***************************************************************************)
InLowOverlap(t) ==
    temp_mfs["low"][1] < 10 * t /\ 10 * t < temp_mfs["very_low"][4]

C3_MonotoneOutsideLowOverlap ==
    (/\ call.op = "evaluate"
     /\ temp_range = DefaultRange
     /\ MediumHumidity(call.hum_val)
     /\ x1 <= call.temp_val /\ call.temp_val <= x2
     /\ ~InLowOverlap(call.temp_val))
    => \A t1 \in x1..call.temp_val :
          ~InLowOverlap(t1) => FracLeq(evaluate(t1, call.hum_val), call.ret)

\* evaluate was called above the overlap of medium and high, where two
\* rules with different consequents fire
C3_Witness ==
    /\ call.op = "evaluate"
    /\ temp_range = DefaultRange
    /\ MediumHumidity(call.hum_val)
    /\ mu_temp("medium", call.temp_val) > 0
    /\ mu_temp("high", call.temp_val) > 0
    /\ FracLeq(evaluate(x1, call.hum_val), call.ret)
    /\ ~FracLeq(call.ret, evaluate(x1, call.hum_val))

(***************************************************************************)
(* C4 as claimed.  A fan term called with an alpha above the greatest      *)
(* membership it has on the sampled universe returns the mean of the       *)
(* universe, and in every other case the first sample whose membership is  *)
(* >= alpha - 1e-3; the value is within the universe.                      *)
(***************************************************************************)
FanTable(term) == SampledMf(fan_speed, fan_mfs[term])

Greatest(mf) == CHOOSE m \in {mf[i] : i \in DOMAIN mf} : \A i \in DOMAIN mf : mf[i] <= m

\* z is the first sample of the table that reaches thr
IsFirstSample(mf, thr, z) ==
    \E i \in DOMAIN mf :
        /\ z = 2 * i
        /\ mf[i] >= thr
        /\ \A j \in 0..(i - 1) : mf[j] < thr

InUniverse(z) == 0 <= z /\ z <= 2 * (fan_speed.n - 1)

C4_MeanAboveGreatest ==
    call.op = "fan_mfs" =>
        /\ IF call.mu > Greatest(FanTable(call.term))
           THEN call.ret = fan_speed.n - 1
           ELSE IsFirstSample(FanTable(call.term), call.mu - Tol, call.ret)
        /\ InUniverse(call.ret)

(***************************************************************************)
(* C4 as amended.  A fan term called with an alpha more than 1e-3 above    *)
(* the greatest membership it has on the sampled universe returns the mean *)
(* of the universe, and in every other case the first sample whose         *)
(* membership is >= alpha - 1e-3; the value is within the universe.        *)
(***************************************************************************)
C4_MeanAboveGreatestPlusTol ==
    call.op = "fan_mfs" =>
        /\ IF call.mu - Tol > Greatest(FanTable(call.term))
           THEN call.ret = fan_speed.n - 1
           ELSE IsFirstSample(FanTable(call.term), call.mu - Tol, call.ret)
        /\ InUniverse(call.ret)

\* a fan term was called with an alpha no sample reaches within 1e-3
C4_Witness ==
    /\ call.op = "fan_mfs"
    /\ call.mu - Tol > Greatest(FanTable(call.term))
    /\ call.ret = fan_speed.n - 1

(***************************************************************************)
(* C5.  In run, for every accepted range and temperature, the final result *)
(* is 100 whenever the temperature is at or above min + 0.9*(max - min).   *)
(***************************************************************************)
AfterIsVeryHigh == pc \in {"show_res", "done"}

C5_ForcedAtNineTenths ==
    (AfterIsVeryHigh /\ 10 * temp >= 10 * x1 + 9 * (x2 - x1)) => res = Hundred

(***************************************************************************)
(* C6.  After any sequence of reconfigurations the humidity and fan term   *)
(* parameters, the humidity and fan universes, the term names and the rule *)
(* table are those of a freshly constructed system; the temperature        *)
(* universe and term parameters are those of the range last entered.       *)
(***************************************************************************)
C6_OnlyTemperatureRebuilt ==
    /\ hum_mfs = DefaultHumMfs
    /\ fan_mfs = DefaultFanMfs
    /\ humidity = linspace(0, 101, NSamples)
    /\ fan_speed = linspace(0, 101, NSamples)
    /\ rules = RuleTable
    /\ DOMAIN temp_mfs = TermSet /\ DOMAIN hum_mfs = TermSet /\ DOMAIN fan_mfs = TermSet
    /\ temperature = linspace(x1, x2 + 1, NSamples)
    /\ temp_mfs = DefaultTempMfs(<<x1, x2 + 1, 1>>)

\* a run has ended on an object whose range was changed
C6_Witness ==
    /\ pc = "done"
    /\ temp_range # DefaultRange
    /\ temperature # linspace(0, 101, NSamples)
    /\ temp_mfs # DefaultTempMfs(DefaultRange)

(***************************************************************************)
(* C7.  The rule base is a sequence of 25 rules; every pair of a           *)
(* temperature term and a humidity term is the antecedent of exactly one   *)
(* rule, and every consequent is a fan term.                               *)
(***************************************************************************)
C7_RuleBaseCoversGrid ==
    /\ Len(rules) = 25
    /\ \A tt \in DOMAIN temp_mfs, ht \in DOMAIN hum_mfs :
          Cardinality({k \in Rules : rules[k][1] = tt /\ rules[k][2] = ht}) = 1
    /\ \A k \in Rules : rules[k][3] \in DOMAIN fan_mfs
    /\ Cardinality(DOMAIN temp_mfs) = 5 /\ Cardinality(DOMAIN hum_mfs) = 5

\* evaluate has gone through the rules of a reconfigured object
C7_Witness ==
    /\ pc = "is_very_high"
    /\ temp_range # DefaultRange
    /\ res.num > 0

(***************************************************************************)
(* C8.  Every membership function has ordered parameters a <= b <= c <= d, *)
(* for the default range and every range min <= max entered.               *)
(***************************************************************************)
Ordered(p) == p[1] <= p[2] /\ p[2] <= p[3] /\ p[3] <= p[4]

C8_ParametersOrdered ==
    x1 <= x2 =>
        \A t \in TermSet :
            Ordered(temp_mfs[t]) /\ Ordered(hum_mfs[t]) /\ Ordered(fan_mfs[t])

(***************************************************************************)
(* C9.  For every term built under a range min <= max, trapmf is 1, up to  *)
(* the perturbation of the added 1e-6, at every x in [b, c], and 0 at      *)
(* every x <= a and every x >= d.  Checked at the parameters, beside them, *)
(* at the temperatures and humidities near the range, and at every sample  *)
(* of the fan universe.                                                    *)
(***************************************************************************)
PlateauAndFeet(x, p, u) ==
    /\ (p[2] <= x /\ x <= p[3]) => trapmf(x, p[1], p[2], p[3], p[4], u) >= ONE - 1
    /\ (x <= p[1] \/ x >= p[4]) => trapmf(x, p[1], p[2], p[3], p[4], u) = 0

Around(p) == {p[i] + e : i \in 1..4, e \in {-1, 0, 1}}

Times(p, u) == <<p[1] * u, p[2] * u, p[3] * u, p[4] * u>>

C9_PlateauOneFeetZero ==
    x1 <= x2 =>
        \A t \in TermSet :
            /\ \A x \in Around(temp_mfs[t])
                        \cup {10 * v : v \in (x1 - MaxOut)..(x2 + MaxOut)} :
                  PlateauAndFeet(x, temp_mfs[t], 10)
            /\ \A x \in Around(hum_mfs[t]) \cup (0 - MaxOut)..(100 + MaxOut) :
                  PlateauAndFeet(x, hum_mfs[t], 1)
            /\ \A i \in 0..(fan_speed.n - 1) :
                  PlateauAndFeet(fan_speed.lo * (fan_speed.n - 1)
                                   + i * (fan_speed.hi - fan_speed.lo),
                                 Times(fan_mfs[t], fan_speed.n - 1),
                                 fan_speed.n - 1)

(***************************************************************************)
(* C10.  For every range min <= max entered, every temperature of the      *)
(* range and every humidity of [0, 100] give some rule a firing strength   *)
(* above 0.                                                                *)
(***************************************************************************)
ValuesEntered == pc \in {"evaluate", "is_very_high", "show_res", "done"}

C10_SomeRuleFires ==
    ValuesEntered => \E k \in Rules : Alpha(rules[k], temp, hum) > 0

====
